---- MODULE Spec2Model ----
(***************************************************************************)
(* A model of ChecklistManager (src/checklist_manager.py): the in-memory   *)
(* document `data`, the persisted JSON file, and one action per public     *)
(* operation of the manager.                                               *)
(*                                                                         *)
(* Timestamps are the values datetime.now() returns, modelled as positive  *)
(* integers read from a wall clock that never runs backwards; a field      *)
(* holding no timestamp (Python None, or the "" of the default document)   *)
(* is 0, which is falsy as in the source.  The free-text fields title,     *)
(* description, files and verification are written once at creation and    *)
(* read only by the Markdown export; they are left out of the task record. *)
(***************************************************************************)
EXTENDS Integers, Sequences, FiniteSets

VARIABLES
    data,       \* self.data: the in-memory document
    file,       \* .project_checklist.json: <<>> when absent, <<d>> when it holds
                \* the text json.dump wrote for d, <<d, damage>> when that text
                \* was damaged since
    clock,      \* the last value datetime.now() returned
    result,     \* the last call on the manager: its arguments and its outcome
    issued,     \* history: the ids assigned to tasks of the current document
    trail,      \* history: per task of data.tasks, the transitions applied to it
    removed,    \* history: the ids remove_task took out of the current document
    other,      \* the document of a second manager constructed over the same
                \* file, while the caller works with the first
    markdown    \* CHECKLIST.md: <<>> when absent, <<r>> when it holds the report
                \* export_to_markdown wrote

vars == <<data, file, clock, result, issued, trail, removed, other, markdown>>

\* ------------------------------------------------------------------ bounds

MaxTasks == 2       \* tasks held by the document at once
MaxId == 3          \* largest task id add_task may assign
MaxClock == 2       \* the wall clock's last instant
MaxLogs == 1        \* session log entries
MaxTimedTasks == 1  \* tasks held at once while the clock runs
MaxSessions == 2    \* session log entries, where their order is looked at
MaxReportTasks == 3 \* tasks of the documents that are exported

\* --------------------------------------------------------------- constants

None == 0

\* The number 0 where a phase is named by it: None being 0 here, the number 0
\* is kept apart from it.
Zero == -1

\* bool(v) is False: of the values a phase id takes, for None and for 0.
Falsy(v) == v = None \/ v = Zero

VALID_STATUSES == <<"Todo", "In Progress", "Done", "Blocked", "Skipped">>

VALID_PRIORITIES == <<"CRITICAL", "HIGH", "MEDIUM", "LOW">>

Range(s) == {s[i] : i \in 1..Len(s)}

\* The marker of a key that a caller's task dictionary does not hold.
Missing == "<missing>"

\* dict.get(key, default)
Get(value, default) == IF value = Missing THEN default ELSE value

\* priority_order.get(p, 2) of get_next_task
priority_order(p) ==
    CASE p = "CRITICAL" -> 0
      [] p = "HIGH" -> 1
      [] p = "MEDIUM" -> 2
      [] p = "LOW" -> 3
      [] OTHER -> 2

\* ---------------------------------------------------------------- document

DefaultDocument ==
    [project_name |-> "", created_at |-> None, last_updated |-> None,
     phases |-> <<>>, tasks |-> <<>>, session_logs |-> <<>>,
     success_criteria |-> <<>>]

\* The values a datetime.now() call may return after the clock read `c`, the
\* clock advancing by one of `ticks` in between.
Now(c, ticks) == {t \in {c + d : d \in ticks} : t <= MaxClock}

\* A slip: the document written as it is, last_updated not refreshed.
SavedStale(doc, now) == doc

\* _save with datetime.now() returning `now`: the document written to the file.
Saved(doc, now) == [doc EXCEPT !.last_updated = now]

\* ------------------------------------------------------------------- JSON

\* The JSON values json.dump writes for the Python values of the document.
JNull == [json |-> "null"]

JNumber(n) == [json |-> "number", value |-> n]

JString(s) == [json |-> "string", value |-> s]

JArray(items) == [json |-> "array", items |-> items]

JObject(members) == [json |-> "object", members |-> members]

\* The elements of a set of numbers as a list.
RECURSIVE ListOf(_)
ListOf(S) ==
    IF S = {} THEN <<>>
    ELSE LET m == CHOOSE x \in S : \A y \in S : x <= y
         IN  <<m>> \o ListOf(S \ {m})

\* A field that holds None or a string: null or a JSON string.
DumpOptional(v) == IF v = None THEN JNull ELSE JString(v)

\* A field that holds None or a number: null or a JSON number.
DumpPhase(v) == IF v = None THEN JNull ELSE JNumber(v)

DumpTask(task) ==
    JObject([id |-> JNumber(task.id),
             priority |-> JString(task.priority),
             phase |-> DumpPhase(task.phase),
             status |-> JString(task.status),
             dependencies |-> JArray([k \in 1..Cardinality(task.dependencies) |->
                                        JNumber(ListOf(task.dependencies)[k])]),
             created_at |-> JString(task.created_at),
             started_at |-> DumpOptional(task.started_at),
             completed_at |-> DumpOptional(task.completed_at),
             notes |-> JString(task.notes)])

DumpLog(entry) ==
    JObject([session |-> JNumber(entry.session),
             timestamp |-> JString(entry.timestamp),
             summary |-> JString(entry.summary)])

\* json.dump(self.data, f): the text written, as the JSON value it denotes.
Dump(doc) ==
    JObject([project_name |-> JString(doc.project_name),
             created_at |-> JString(doc.created_at),
             last_updated |-> JString(doc.last_updated),
             phases |-> JArray(doc.phases),
             tasks |-> JArray([i \in 1..Len(doc.tasks) |-> DumpTask(doc.tasks[i])]),
             session_logs |-> JArray([i \in 1..Len(doc.session_logs) |->
                                        DumpLog(doc.session_logs[i])]),
             success_criteria |-> JArray(doc.success_criteria)])

\* The Python value json.load builds for a JSON value that is null, a number
\* or a string.
LoadScalar(j) == IF j.json = "null" THEN None ELSE j.value

LoadTask(j) ==
    LET m == j.members
    IN  [id |-> LoadScalar(m.id),
         priority |-> LoadScalar(m.priority),
         phase |-> LoadScalar(m.phase),
         status |-> LoadScalar(m.status),
         dependencies |-> {LoadScalar(m.dependencies.items[k]) :
                              k \in 1..Len(m.dependencies.items)},
         created_at |-> LoadScalar(m.created_at),
         started_at |-> LoadScalar(m.started_at),
         completed_at |-> LoadScalar(m.completed_at),
         notes |-> LoadScalar(m.notes)]

LoadLog(j) ==
    [session |-> LoadScalar(j.members.session),
     timestamp |-> LoadScalar(j.members.timestamp),
     summary |-> LoadScalar(j.members.summary)]

\* A slip: the document rebuilt from the task fields only, the session logs
\* left empty.
LoadWithoutLogs(j) ==
    LET m == j.members
    IN  [project_name |-> LoadScalar(m.project_name),
         created_at |-> LoadScalar(m.created_at),
         last_updated |-> LoadScalar(m.last_updated),
         phases |-> m.phases.items,
         tasks |-> [i \in 1..Len(m.tasks.items) |-> LoadTask(m.tasks.items[i])],
         session_logs |-> <<>>,
         success_criteria |-> m.success_criteria.items]

\* json.load(f): the document built from the JSON value the text denotes.
Load(j) ==
    LET m == j.members
    IN  [project_name |-> LoadScalar(m.project_name),
         created_at |-> LoadScalar(m.created_at),
         last_updated |-> LoadScalar(m.last_updated),
         phases |-> m.phases.items,
         tasks |-> [i \in 1..Len(m.tasks.items) |-> LoadTask(m.tasks.items[i])],
         session_logs |-> [i \in 1..Len(m.session_logs.items) |->
                             LoadLog(m.session_logs.items[i])],
         success_criteria |-> m.success_criteria.items]

\* What became of the text of a file since it was written: cut short, so that
\* it is no JSON value, or overwritten with bytes that are no UTF-8 text.
Truncated == "truncated"

NotUtf8 == "not utf-8"

\* _load_or_create: the document __init__ keeps, or the exception it lets
\* through.  json.JSONDecodeError is caught; the UnicodeDecodeError that
\* f.read() raises for a file opened with encoding='utf-8' is not.
load_or_create(f) ==
    IF f = <<>> THEN [raised |-> FALSE, doc |-> DefaultDocument]
    ELSE IF Len(f) = 1 THEN [raised |-> FALSE, doc |-> Load(Dump(f[1]))]
    ELSE IF f[2] = NotUtf8 THEN [raised |-> TRUE, doc |-> DefaultDocument]
    ELSE [raised |-> FALSE, doc |-> DefaultDocument]

\* ---------------------------------------------------------------- outcomes

\* The outcome of a call: its arguments, the value datetime.now() returned in
\* its body (None when it read no clock), and the value returned or the
\* ValueError raised.
Returned(op, args, at, ret) ==
    [op |-> op, args |-> args, at |-> at, ret |-> ret, raised |-> FALSE]

Raised(op, args) ==
    [op |-> op, args |-> args, at |-> None, ret |-> None, raised |-> TRUE]

\* The history of a task no update_task_status has touched.
Untouched == [last |-> "", ran |-> FALSE, done_at |-> None]

\* The history of a task after update_task_status applied `status` to it at
\* `now`: the last status applied, whether In Progress was ever applied, and
\* when Done was first applied.
Touched(h, status, now) ==
    [last |-> status,
     ran |-> h.ran \/ status = "In Progress",
     done_at |-> IF status = "Done" /\ h.done_at = None THEN now ELSE h.done_at]

\* ------------------------------------------------------------- pure reads

\* get_task's scan: the position of the first task with this id, 0 for None.
RECURSIVE FindFrom(_, _, _)
FindFrom(tasks, task_id, i) ==
    IF i > Len(tasks) THEN 0
    ELSE IF tasks[i].id = task_id THEN i
    ELSE FindFrom(tasks, task_id, i + 1)

\* A slip: the loop's last task used when no id matched.
get_task_or_last(tasks, task_id) ==
    IF FindFrom(tasks, task_id, 1) # 0 THEN FindFrom(tasks, task_id, 1) ELSE Len(tasks)

get_task(tasks, task_id) == FindFrom(tasks, task_id, 1)

\* The first loop of get_next_task: the position of the first In Progress
\* task, 0 when the loop ends without returning.
RECURSIVE FirstInProgressFrom(_, _)
FirstInProgressFrom(tasks, i) ==
    IF i > Len(tasks) THEN 0
    ELSE IF tasks[i].status = "In Progress" THEN i
    ELSE FirstInProgressFrom(tasks, i + 1)

\* A slip: the status filter left out, every id in the list counts as done.
all_ids(tasks) == {tasks[i].id : i \in 1..Len(tasks)}

done_ids(tasks) == {tasks[i].id : i \in {j \in 1..Len(tasks) : tasks[j].status = "Done"}}

\* A slip: the dependency test left out, every Todo task is eligible.
RECURSIVE TodoFrom(_, _)
TodoFrom(tasks, i) ==
    IF i > Len(tasks) THEN <<>>
    ELSE IF tasks[i].status = "Todo"
         THEN <<i>> \o TodoFrom(tasks, i + 1)
         ELSE TodoFrom(tasks, i + 1)

\* A change: a task with dependencies is never eligible.
RECURSIVE IndependentFrom(_, _)
IndependentFrom(tasks, i) ==
    IF i > Len(tasks) THEN <<>>
    ELSE IF tasks[i].status = "Todo" /\ tasks[i].dependencies = {}
         THEN <<i>> \o IndependentFrom(tasks, i + 1)
         ELSE IndependentFrom(tasks, i + 1)

\* The second loop of get_next_task: the positions of the eligible tasks, in
\* list order.
RECURSIVE EligibleFrom(_, _)
EligibleFrom(tasks, i) ==
    IF i > Len(tasks) THEN <<>>
    ELSE IF tasks[i].status = "Todo" /\ tasks[i].dependencies \subseteq done_ids(tasks)
         THEN <<i>> \o EligibleFrom(tasks, i + 1)
         ELSE EligibleFrom(tasks, i + 1)

SortKey(tasks, i) == priority_order(tasks[i].priority)

\* A slip: an unstable sort, an element goes ahead of the elements of its own key.
RECURSIVE InsertByKeyUnstable(_, _, _)
InsertByKeyUnstable(tasks, sorted, x) ==
    IF sorted = <<>> THEN <<x>>
    ELSE IF SortKey(tasks, Head(sorted)) < SortKey(tasks, x)
         THEN <<Head(sorted)>> \o InsertByKeyUnstable(tasks, Tail(sorted), x)
         ELSE <<x>> \o sorted

\* list.sort(key=...) is stable: each element goes behind the elements
\* already placed whose key is not greater than its own.
RECURSIVE InsertByKey(_, _, _)
InsertByKey(tasks, sorted, x) ==
    IF sorted = <<>> THEN <<x>>
    ELSE IF SortKey(tasks, Head(sorted)) <= SortKey(tasks, x)
         THEN <<Head(sorted)>> \o InsertByKey(tasks, Tail(sorted), x)
         ELSE <<x>> \o sorted

RECURSIVE SortByPriority(_, _, _)
SortByPriority(tasks, todo, sorted) ==
    IF todo = <<>> THEN sorted
    ELSE SortByPriority(tasks, Tail(todo), InsertByKey(tasks, sorted, Head(todo)))

\* A slip: the eligible tasks looked at before the In Progress ones.
get_next_task_eligible_first(tasks) ==
    LET running == FirstInProgressFrom(tasks, 1)
        eligible == EligibleFrom(tasks, 1)
    IN  IF eligible # <<>> THEN SortByPriority(tasks, eligible, <<>>)[1]
        ELSE running

\* get_next_task: the position in data["tasks"] of the task returned, 0 for None.
get_next_task(tasks) ==
    LET running == FirstInProgressFrom(tasks, 1)
        eligible == EligibleFrom(tasks, 1)
    IN  IF running # 0 THEN running
        ELSE IF eligible = <<>> THEN 0
        ELSE SortByPriority(tasks, eligible, <<>>)[1]

\* The positions from i on of the tasks that pass the test of a list
\* comprehension, in list order.
RECURSIVE WithStatusFrom(_, _, _)
WithStatusFrom(tasks, status, i) ==
    IF i > Len(tasks) THEN <<>>
    ELSE IF tasks[i].status = status
         THEN <<i>> \o WithStatusFrom(tasks, status, i + 1)
         ELSE WithStatusFrom(tasks, status, i + 1)

\* get_tasks_by_status: the positions of the tasks returned.
get_tasks_by_status(tasks, status) == WithStatusFrom(tasks, status, 1)

RECURSIVE WithPhaseFrom(_, _, _)
WithPhaseFrom(tasks, phase, i) ==
    IF i > Len(tasks) THEN <<>>
    ELSE IF tasks[i].phase = phase
         THEN <<i>> \o WithPhaseFrom(tasks, phase, i + 1)
         ELSE WithPhaseFrom(tasks, phase, i + 1)

\* get_tasks_by_phase: the positions of the tasks returned.
get_tasks_by_phase(tasks, phase) == WithPhaseFrom(tasks, phase, 1)

\* round((done / total) * 100, 1), in tenths of a percent: the nearest tenth,
\* the even one of two equally near.
percentage(done, total) ==
    LET q == (1000 * done) \div total
        r == (1000 * done) % total
    IN  IF 2 * r < total THEN q
        ELSE IF 2 * r > total THEN q + 1
        ELSE IF q % 2 = 0 THEN q ELSE q + 1

\* A change: the empty list reported as complete.
get_progress_empty_complete(tasks) ==
    LET total == Len(tasks)
        by_status(status) == Len(get_tasks_by_status(tasks, status))
    IN  IF total = 0
        THEN [total |-> 0, done |-> 0, in_progress |-> 0, todo |-> 0, percentage |-> 1000]
        ELSE [total |-> total,
              percentage |-> percentage(by_status("Done"), total),
              todo |-> by_status("Todo"),
              in_progress |-> by_status("In Progress"),
              done |-> by_status("Done"),
              blocked |-> by_status("Blocked"),
              skipped |-> by_status("Skipped")]

\* A change: Skipped tasks counted as complete.
get_progress_counting_skipped(tasks) ==
    LET total == Len(tasks)
        by_status(status) == Len(get_tasks_by_status(tasks, status))
    IN  IF total = 0
        THEN [total |-> 0, done |-> 0, in_progress |-> 0, todo |-> 0, percentage |-> 0]
        ELSE [total |-> total,
              percentage |-> percentage(by_status("Done") + by_status("Skipped"), total),
              todo |-> by_status("Todo"),
              in_progress |-> by_status("In Progress"),
              done |-> by_status("Done") + by_status("Skipped"),
              blocked |-> by_status("Blocked"),
              skipped |-> by_status("Skipped")]

\* get_progress: the dictionary returned.
get_progress(tasks) ==
    LET total == Len(tasks)
        by_status(status) == Len(get_tasks_by_status(tasks, status))
    IN  IF total = 0
        THEN [total |-> 0, done |-> 0, in_progress |-> 0, todo |-> 0, percentage |-> 0]
        ELSE [total |-> total,
              percentage |-> percentage(by_status("Done"), total),
              todo |-> by_status("Todo"),
              in_progress |-> by_status("In Progress"),
              done |-> by_status("Done"),
              blocked |-> by_status("Blocked"),
              skipped |-> by_status("Skipped")]

\* _format_task: the lines written for a task, as the fields they show.
format_task(task) ==
    [id |-> task.id,
     status |-> task.status,
     priority |-> task.priority,
     dependencies |-> task.dependencies,
     notes |-> task.notes,
     completed |-> task.completed_at # None]

\* phase.get("id") or phase.get("name"); every phase of the model has an id.
phase_id(phase) == IF Falsy(phase.id) THEN Get(phase.name, None) ELSE phase.id

\* The heading of a phase and the tasks listed under it.
PhaseSection(tasks, phase) ==
    LET phase_tasks == get_tasks_by_phase(tasks, phase_id(phase))
    IN  [heading |-> Get(phase.name, <<"Phase", phase_id(phase)>>),
         tasks |-> [n \in 1..Len(phase_tasks) |-> format_task(tasks[phase_tasks[n]])]]

\* f"{progress['percentage']}": the int 0 of an empty list is written "0", the
\* float of any other list with its integer part and one decimal.
FormatPercentage(progress) ==
    IF progress.total = 0 THEN <<progress.percentage>>
    ELSE <<progress.percentage \div 10, progress.percentage % 10>>

\* export_to_markdown: the report written, section by section.
export_to_markdown(doc) ==
    LET progress == get_progress(doc.tasks)
    IN  [project_name |-> doc.project_name,
         total |-> progress.total,
         completed |-> progress.done,
         in_progress |-> progress.in_progress,
         todo |-> progress.todo,
         completion |-> FormatPercentage(progress),
         last_updated |-> doc.last_updated,
         sections |-> IF doc.phases # <<>>
                      THEN [k \in 1..Len(doc.phases) |-> PhaseSection(doc.tasks, doc.phases[k])]
                      ELSE <<[heading |-> "Tasks",
                              tasks |-> [i \in 1..Len(doc.tasks) |-> format_task(doc.tasks[i])]]>>,
         success_criteria |-> doc.success_criteria,
         session_logs |-> doc.session_logs]

\* --------------------------------------------------------------- operations

\* "if notes:" of update_task_status: None and "" are not notes.
NoNotes == "<None>"

Truthy(notes) == notes # NoNotes /\ notes # ""

MaxOf(S) == IF S = {} THEN 0 ELSE CHOOSE m \in S : \A x \in S : x <= m

\* A slip: enumerate(tasks) without start=1, the ids counted from 0.
ProcessedTaskFromZero(i, task, now) ==
    [id |-> i - 1,
     priority |-> Get(task.priority, "MEDIUM"),
     phase |-> task.phase,
     status |-> "Todo",
     dependencies |-> task.dependencies,
     created_at |-> now,
     started_at |-> None,
     completed_at |-> None,
     notes |-> ""]

\* The task dictionary initialize builds for the i-th caller dictionary.
ProcessedTask(i, task, now) ==
    [id |-> i,
     priority |-> Get(task.priority, "MEDIUM"),
     phase |-> task.phase,
     status |-> "Todo",
     dependencies |-> task.dependencies,
     created_at |-> now,
     started_at |-> None,
     completed_at |-> None,
     notes |-> ""]

\* initialize(project_name, tasks, phases, success_criteria); datetime.now()
\* returns `now` in initialize and `saved` in _save.
Initialize(project_name, tasks, phases, success_criteria, now, saved) ==
    LET processed_tasks == [i \in 1..Len(tasks) |-> ProcessedTask(i, tasks[i], now)]
        doc == [project_name |-> project_name,
                created_at |-> now,
                last_updated |-> now,
                phases |-> phases,
                tasks |-> processed_tasks,
                session_logs |-> <<>>,
                success_criteria |-> success_criteria]
    IN  /\ data' = Saved(doc, saved)
        /\ file' = <<data'>>
        /\ clock' = saved
        /\ result' = Returned("initialize", <<tasks>>, now, None)
        /\ issued' = 1..Len(tasks)
        /\ trail' = [i \in 1..Len(tasks) |-> Untouched]
        /\ removed' = {}
        /\ UNCHANGED <<other, markdown>>

\* "if priority not in self.VALID_PRIORITIES" of add_task
InvalidPriority(priority) == priority \notin Range(VALID_PRIORITIES)

\* A slip: the new id taken from the number of tasks in the list.
NewIdByCount(tasks) == Len(tasks) + 1

\* The id add_task gives the new task.
NewId(tasks) == MaxOf({tasks[i].id : i \in 1..Len(tasks)}) + 1

\* A change: the new task put in front of the list.
AddTaskInFront(priority, phase, dependencies, now, saved) ==
    IF InvalidPriority(priority)
    THEN /\ result' = Raised("add_task", <<priority>>)
         /\ UNCHANGED <<data, file, clock, issued, trail, removed, other, markdown>>
    ELSE LET new_id == NewId(data.tasks)
             new_task == [id |-> new_id,
                          priority |-> priority,
                          phase |-> phase,
                          status |-> "Todo",
                          dependencies |-> dependencies,
                          created_at |-> now,
                          started_at |-> None,
                          completed_at |-> None,
                          notes |-> ""]
         IN  /\ data' = Saved([data EXCEPT !.tasks = <<new_task>> \o @], saved)
             /\ file' = <<data'>>
             /\ clock' = saved
             /\ result' = Returned("add_task", <<priority>>, now, new_id)
             /\ issued' = issued \cup {new_id}
             /\ trail' = <<Untouched>> \o trail
             /\ UNCHANGED <<removed, other, markdown>>

\* add_task(priority, phase, dependencies)
AddTask(priority, phase, dependencies, now, saved) ==
    IF InvalidPriority(priority)
    THEN /\ result' = Raised("add_task", <<priority>>)
         /\ UNCHANGED <<data, file, clock, issued, trail, removed, other, markdown>>
    ELSE LET new_id == NewId(data.tasks)
             new_task == [id |-> new_id,
                          priority |-> priority,
                          phase |-> phase,
                          status |-> "Todo",
                          dependencies |-> dependencies,
                          created_at |-> now,
                          started_at |-> None,
                          completed_at |-> None,
                          notes |-> ""]
         IN  /\ data' = Saved([data EXCEPT !.tasks = Append(@, new_task)], saved)
             /\ file' = <<data'>>
             /\ clock' = saved
             /\ result' = Returned("add_task", <<priority>>, now, new_id)
             /\ issued' = issued \cup {new_id}
             /\ trail' = Append(trail, Untouched)
             /\ UNCHANGED <<removed, other, markdown>>

\* del self.data["tasks"][i]
DeleteAt(tasks, i) == SubSeq(tasks, 1, i - 1) \o SubSeq(tasks, i + 1, Len(tasks))

\* remove_task(task_id)
RemoveTask(task_id, saved) ==
    LET i == get_task(data.tasks, task_id)
    IN  IF i # 0
        THEN /\ data' = Saved([data EXCEPT !.tasks = DeleteAt(@, i)], saved)
             /\ file' = <<data'>>
             /\ clock' = saved
             /\ result' = Returned("remove_task", <<task_id>>, None, TRUE)
             /\ trail' = DeleteAt(trail, i)
             /\ removed' = removed \cup {task_id}
             /\ UNCHANGED <<issued, other, markdown>>
        ELSE /\ result' = Returned("remove_task", <<task_id>>, None, FALSE)
             /\ UNCHANGED <<data, file, clock, issued, trail, removed, other, markdown>>

\* A slip: the check left out, any status is taken.
AnyStatus(status) == FALSE

\* "if status not in self.VALID_STATUSES" of update_task_status
InvalidStatus(status) == status \notin Range(VALID_STATUSES)

\* A slip: started_at written on every transition into In Progress.
UpdatedTaskRestarted(task, status, notes, now) ==
    LET t1 == [task EXCEPT !.status = status]
        t2 == IF status = "In Progress"
              THEN [t1 EXCEPT !.started_at = now]
              ELSE IF status = "Done"
              THEN [t1 EXCEPT !.completed_at = now]
              ELSE t1
    IN  IF Truthy(notes) THEN [t2 EXCEPT !.notes = notes] ELSE t2

\* A slip: completed_at guarded like started_at, written by the first Done only.
UpdatedTaskCompletedOnce(task, status, notes, now) ==
    LET t1 == [task EXCEPT !.status = status]
        t2 == IF status = "In Progress" /\ t1.started_at = None
              THEN [t1 EXCEPT !.started_at = now]
              ELSE IF status = "Done" /\ t1.completed_at = None
              THEN [t1 EXCEPT !.completed_at = now]
              ELSE t1
    IN  IF Truthy(notes) THEN [t2 EXCEPT !.notes = notes] ELSE t2

\* A change: completed_at cleared when the task leaves Done.
UpdatedTaskCleared(task, status, notes, now) ==
    LET t1 == [task EXCEPT !.status = status]
        t2 == IF status = "In Progress" /\ t1.started_at = None
              THEN [t1 EXCEPT !.started_at = now, !.completed_at = None]
              ELSE IF status = "Done"
              THEN [t1 EXCEPT !.completed_at = now]
              ELSE [t1 EXCEPT !.completed_at = None]
    IN  IF Truthy(notes) THEN [t2 EXCEPT !.notes = notes] ELSE t2

\* The body of update_task_status's loop for the task found.
UpdatedTask(task, status, notes, now) ==
    LET t1 == [task EXCEPT !.status = status]
        t2 == IF status = "In Progress" /\ t1.started_at = None
              THEN [t1 EXCEPT !.started_at = now]
              ELSE IF status = "Done"
              THEN [t1 EXCEPT !.completed_at = now]
              ELSE t1
    IN  IF Truthy(notes) THEN [t2 EXCEPT !.notes = notes] ELSE t2

\* A change: the task found is taken out of the list and appended again,
\* updated.
UpdateTaskStatusMovingLast(task_id, status, notes, now, saved) ==
    IF InvalidStatus(status)
    THEN /\ result' = Raised("update_task_status", <<task_id, status, notes>>)
         /\ UNCHANGED <<data, file, clock, issued, trail, removed, other, markdown>>
    ELSE LET i == get_task(data.tasks, task_id)
         IN  IF i # 0
             THEN /\ data' = Saved([data EXCEPT !.tasks =
                                        Append(DeleteAt(@, i),
                                               UpdatedTask(@[i], status, notes, now))], saved)
                  /\ file' = <<data'>>
                  /\ clock' = saved
                  /\ result' = Returned("update_task_status", <<task_id, status, notes>>, now, TRUE)
                  /\ trail' = Append(DeleteAt(trail, i), Touched(trail[i], status, now))
                  /\ UNCHANGED <<issued, removed, other, markdown>>
             ELSE /\ result' = Returned("update_task_status", <<task_id, status, notes>>, None, FALSE)
                  /\ UNCHANGED <<data, file, clock, issued, trail, removed, other, markdown>>

\* update_task_status(task_id, status, notes)
UpdateTaskStatus(task_id, status, notes, now, saved) ==
    IF InvalidStatus(status)
    THEN /\ result' = Raised("update_task_status", <<task_id, status, notes>>)
         /\ UNCHANGED <<data, file, clock, issued, trail, removed, other, markdown>>
    ELSE LET i == get_task(data.tasks, task_id)
         IN  IF i # 0
             THEN /\ data' = Saved([data EXCEPT !.tasks[i] =
                                        UpdatedTask(@, status, notes, now)], saved)
                  /\ file' = <<data'>>
                  /\ clock' = saved
                  /\ result' = Returned("update_task_status", <<task_id, status, notes>>, now, TRUE)
                  /\ trail' = [trail EXCEPT ![i] = Touched(@, status, now)]
                  /\ UNCHANGED <<issued, removed, other, markdown>>
             ELSE /\ result' = Returned("update_task_status", <<task_id, status, notes>>, None, FALSE)
                  /\ UNCHANGED <<data, file, clock, issued, trail, removed, other, markdown>>

\* A slip: the entry put in front of the log.
AddSessionLogInFront(session_num, summary, now, saved) ==
    LET log_entry == [session |-> session_num, timestamp |-> now, summary |-> summary]
    IN  /\ data' = Saved([data EXCEPT !.session_logs = <<log_entry>> \o @], saved)
        /\ file' = <<data'>>
        /\ clock' = saved
        /\ result' = Returned("add_session_log", <<session_num>>, now, None)
        /\ UNCHANGED <<issued, trail, removed, other, markdown>>

\* A change: the file read again before the entry is added, so that what
\* another manager wrote since is kept.
AddSessionLogMerging(session_num, summary, now, saved) ==
    LET log_entry == [session |-> session_num, timestamp |-> now, summary |-> summary]
        current == IF Len(file) = 1 THEN file[1] ELSE data
    IN  /\ data' = Saved([current EXCEPT !.session_logs = Append(@, log_entry)], saved)
        /\ file' = <<data'>>
        /\ clock' = saved
        /\ result' = Returned("add_session_log", <<session_num>>, now, None)
        /\ UNCHANGED <<issued, trail, removed, other, markdown>>

\* add_session_log(session_num, summary)
AddSessionLog(session_num, summary, now, saved) ==
    LET log_entry == [session |-> session_num, timestamp |-> now, summary |-> summary]
    IN  /\ data' = Saved([data EXCEPT !.session_logs = Append(@, log_entry)], saved)
        /\ file' = <<data'>>
        /\ clock' = saved
        /\ result' = Returned("add_session_log", <<session_num>>, now, None)
        /\ UNCHANGED <<issued, trail, removed, other, markdown>>

\* ChecklistManager(project_dir): a new manager constructed over the file.
\* The histories follow the document: they stay when it is loaded from the
\* file and start afresh with the default document.
Construct ==
    LET loaded == load_or_create(file)
    IN  IF loaded.raised
        THEN /\ result' = Raised("__init__", <<>>)
             /\ UNCHANGED <<data, file, clock, issued, trail, removed, other, markdown>>
        ELSE /\ data' = loaded.doc
             /\ result' = Returned("__init__", <<>>, None, None)
             /\ IF Len(file) = 1
                THEN UNCHANGED <<issued, trail, removed, other, markdown>>
                ELSE issued' = {} /\ trail' = <<>> /\ removed' = {}
             /\ UNCHANGED <<file, clock, other, markdown>>

\* A slip: the sort applied to data["tasks"] itself, not to the new list of
\* eligible tasks.
GetNextTaskSortingInPlace ==
    LET all == [i \in 1..Len(data.tasks) |-> i]
        order == SortByPriority(data.tasks, all, <<>>)
    IN  /\ result' = Returned("get_next_task", <<>>, None, get_next_task(data.tasks))
        /\ data' = [data EXCEPT !.tasks = [k \in 1..Len(order) |-> data.tasks[order[k]]]]
        /\ trail' = [k \in 1..Len(order) |-> trail[order[k]]]
        /\ UNCHANGED <<file, clock, issued, removed, other, markdown>>

\* get_next_task()
GetNextTask ==
    /\ result' = Returned("get_next_task", <<>>, None, get_next_task(data.tasks))
    /\ UNCHANGED <<data, file, clock, issued, trail, removed, other, markdown>>

\* The caller turns to the second manager: the calls that follow work on its
\* document, the first manager keeps its own.  Neither reads the file.  The
\* histories are those of a document whose tasks were added and never
\* updated or removed.
Switch ==
    /\ data' = other
    /\ other' = data
    /\ result' = Returned("switch", <<>>, None, None)
    /\ issued' = {other.tasks[i].id : i \in 1..Len(other.tasks)}
    /\ trail' = [i \in 1..Len(other.tasks) |-> Untouched]
    /\ removed' = {}
    /\ UNCHANGED <<file, clock, markdown>>

\* get_task(task_id)
GetTask(task_id) ==
    /\ result' = Returned("get_task", <<task_id>>, None, get_task(data.tasks, task_id))
    /\ UNCHANGED <<data, file, clock, issued, trail, removed, other, markdown>>

\* get_tasks_by_status(status)
GetTasksByStatus(status) ==
    /\ result' = Returned("get_tasks_by_status", <<status>>, None,
                          get_tasks_by_status(data.tasks, status))
    /\ UNCHANGED <<data, file, clock, issued, trail, removed, other, markdown>>

\* get_tasks_by_phase(phase)
GetTasksByPhase(phase) ==
    /\ result' = Returned("get_tasks_by_phase", <<phase>>, None,
                          get_tasks_by_phase(data.tasks, phase))
    /\ UNCHANGED <<data, file, clock, issued, trail, removed, other, markdown>>

\* get_progress()
GetProgress ==
    /\ result' = Returned("get_progress", <<>>, None, get_progress(data.tasks))
    /\ UNCHANGED <<data, file, clock, issued, trail, removed, other, markdown>>

\* export_to_markdown()
ExportToMarkdown ==
    /\ markdown' = <<export_to_markdown(data)>>
    /\ result' = Returned("export_to_markdown", <<>>, None, None)
    /\ UNCHANGED <<data, file, clock, issued, trail, removed, other>>

\* ------------------------------------------------------------------ inputs

\* The caller's values: the valid ones and one the validation rejects.
PriorityInputs == Range(VALID_PRIORITIES) \cup {"URGENT"}

StatusInputs == Range(VALID_STATUSES) \cup {"Paused"}

\* Task ids a caller may pass: those in use and one never assigned.
IdInputs == 1..(MaxId + 1)

\* Sequences over S of length at most n.
SeqsUpTo(S, n) == UNION {[1..k -> S] : k \in 0..n}

\* A caller's task dictionary for initialize.
TaskInput(priority, dependencies) ==
    [priority |-> priority, phase |-> None, dependencies |-> dependencies]

\* The model's bounds on the document, as guards of the calls that grow it.
RoomForTask(n) == Len(data.tasks) < n /\ NewId(data.tasks) <= MaxId

RoomForLog == Len(data.session_logs) < MaxLogs

\* ---------------------------------------------------------- specifications

\* __init__ with no .project_checklist.json in the project directory.
Init ==
    /\ data = DefaultDocument
    /\ file = <<>>
    /\ clock = 1
    /\ result = Returned("__init__", <<>>, None, None)
    /\ issued = {}
    /\ trail = <<>>
    /\ removed = {}
    /\ other = DefaultDocument
    /\ markdown = <<>>

\* The caller's task dictionaries: one with the defaults, one with a priority
\* outside VALID_PRIORITIES, one that depends on the second task.
TaskInputs == {TaskInput(Missing, {}), TaskInput("URGENT", {}), TaskInput(Missing, {2})}

\* Id assignment: tasks are created, completed and removed, all calls made
\* within one instant of the clock.
Next ==
    \/ \E tasks \in SeqsUpTo(TaskInputs, MaxTasks) :
          Initialize("P", tasks, <<>>, <<>>, clock, clock)
    \/ \E priority \in {"MEDIUM", "URGENT"} :
          /\ RoomForTask(MaxTasks)
          /\ AddTask(priority, None, {}, clock, clock)
    \/ \E task_id \in IdInputs : RemoveTask(task_id, clock)
    \/ \E task_id \in IdInputs, status \in {"Done", "Paused"} :
          UpdateTaskStatus(task_id, status, NoNotes, clock, clock)
    \/ RoomForLog /\ AddSessionLog(1, "s", clock, clock)
    \/ GetNextTask

Spec == Init /\ [][Next]_vars

\* The task lifecycle: one priority, no dependencies, every status, and a
\* clock that may advance between any two reads.  Tasks keep their ids: the
\* only remove_task calls name an id that was never assigned.  The task
\* update_task_status works on is the last one the document has room for,
\* behind the tasks created before it.
Ticks == {0, 1}

ClockNext ==
    \/ \E tasks \in SeqsUpTo({TaskInput(Missing, {})}, MaxTimedTasks) :
       \E now \in Now(clock, Ticks) : \E saved \in Now(now, Ticks) :
          Initialize("P", tasks, <<>>, <<>>, now, saved)
    \/ \E priority \in {"MEDIUM", "URGENT"} :
       \E now \in Now(clock, Ticks) : \E saved \in Now(now, Ticks) :
          /\ RoomForTask(MaxTimedTasks)
          /\ AddTask(priority, None, {}, now, saved)
    \/ \E saved \in Now(clock, Ticks) :
          RemoveTask(MaxId + 1, saved)
    \/ \E task_id \in {MaxTimedTasks, MaxTimedTasks + 1}, status \in StatusInputs :
       \E now \in Now(clock, Ticks) : \E saved \in Now(now, Ticks) :
          UpdateTaskStatus(task_id, status, NoNotes, now, saved)

SpecClock == Init /\ [][ClockNext]_vars

\* Persistence: every operation that saves, with a clock that may advance
\* between any two reads, and a new manager constructed over the file.
SaveNext ==
    \/ \E tasks \in SeqsUpTo({TaskInput(Missing, {})}, MaxTimedTasks) :
       \E now \in Now(clock, Ticks) : \E saved \in Now(now, Ticks) :
          Initialize("P", tasks, <<>>, <<>>, now, saved)
    \/ \E now \in Now(clock, Ticks) : \E saved \in Now(now, Ticks) :
          /\ RoomForTask(MaxTimedTasks)
          /\ AddTask("MEDIUM", None, {1}, now, saved)
    \/ \E task_id \in 1..MaxTimedTasks : \E saved \in Now(clock, Ticks) :
          RemoveTask(task_id, saved)
    \/ \E task_id \in 1..MaxTimedTasks :
       \E now \in Now(clock, Ticks) : \E saved \in Now(now, Ticks) :
          UpdateTaskStatus(task_id, "Done", NoNotes, now, saved)
    \/ \E now \in Now(clock, Ticks) : \E saved \in Now(now, Ticks) :
          /\ RoomForLog
          /\ AddSessionLog(1, "s", now, saved)
    \/ Construct

SpecSave == Init /\ [][SaveNext]_vars

\* The scheduler: a manager constructed over the file an earlier session
\* left, holding tasks of any priority, status and dependency list.
RECURSIVE Ascending(_)
Ascending(S) ==
    IF S = {} THEN <<>>
    ELSE LET m == CHOOSE x \in S : \A y \in S : x <= y
         IN  <<m>> \o Ascending(S \ {m})

SchedDeps == {{}, {1}, {1, MaxId}}

\* A task as update_task_status leaves it when called once on a new task.
PersistedTask(id, priority, status, dependencies) ==
    [id |-> id,
     priority |-> priority,
     phase |-> None,
     status |-> status,
     dependencies |-> dependencies,
     created_at |-> 1,
     started_at |-> IF status = "In Progress" THEN 1 ELSE None,
     completed_at |-> IF status = "Done" THEN 1 ELSE None,
     notes |-> ""]

PersistedDocument(tasks) ==
    [project_name |-> "P", created_at |-> 1, last_updated |-> 1,
     phases |-> <<>>, tasks |-> tasks, session_logs |-> <<>>,
     success_criteria |-> <<>>]

\* What a persisted task may look like: a Todo or In Progress task has any
\* priority and dependency list; a task of another status has a priority at
\* either end of the scale and no dependencies.
SchedShapes ==
    (PriorityInputs \X {"Todo", "In Progress"} \X SchedDeps)
    \cup ({"CRITICAL", "LOW"} \X {"Done", "Blocked", "Skipped"} \X {{}})

\* __init__ with a .project_checklist.json that parses: the document loaded.
SchedInit ==
    \E S \in {T \in SUBSET (1..MaxId) : Cardinality(T) <= MaxTasks} :
    \E shape \in [S -> SchedShapes] :
        LET ids == Ascending(S)
            tasks == [i \in 1..Len(ids) |->
                        PersistedTask(ids[i], shape[ids[i]][1], shape[ids[i]][2],
                                      shape[ids[i]][3])]
        IN  /\ file = <<PersistedDocument(tasks)>>
            /\ data = file[1]
            /\ clock = 1
            /\ result = Returned("__init__", <<>>, None, None)
            /\ issued = 1..MaxOf(S)
            /\ trail = [i \in 1..Len(ids) |->
                          IF tasks[i].status = "Todo" THEN Untouched
                          ELSE Touched(Untouched, tasks[i].status, 1)]
            /\ removed = {}
            /\ other = DefaultDocument
            /\ markdown = <<>>

SchedNext == GetNextTask

SpecSched == SchedInit /\ [][SchedNext]_vars

\* Loading: the manager of an earlier session holds a document, and a new
\* manager is constructed over the file as it is found: as written, deleted,
\* or damaged.
FileFound(doc) == {<<doc>>, <<>>, <<doc, Truncated>>, <<doc, NotUtf8>>}

LoadInit ==
    \E S \in {T \in SUBSET (1..MaxId) : Cardinality(T) <= MaxTasks} :
    \E shape \in [S -> SchedShapes] :
        LET ids == Ascending(S)
            tasks == [i \in 1..Len(ids) |->
                        PersistedTask(ids[i], shape[ids[i]][1], shape[ids[i]][2],
                                      shape[ids[i]][3])]
        IN  /\ data = PersistedDocument(tasks)
            /\ file \in FileFound(data)
            /\ clock = 1
            /\ result = Returned("__init__", <<>>, None, None)
            /\ issued = 1..MaxOf(S)
            /\ trail = [i \in 1..Len(ids) |->
                          IF tasks[i].status = "Todo" THEN Untouched
                          ELSE Touched(Untouched, tasks[i].status, 1)]
            /\ removed = {}
            /\ other = DefaultDocument
            /\ markdown = <<>>

LoadNext == Construct \/ GetNextTask

SpecLoad == LoadInit /\ [][LoadNext]_vars

\* Reading: a manager constructed over a file holding tasks numbered from 1,
\* of either end of the priority scale, in or out of phase 1, and every read
\* operation called on it.
ReadShapes == {"CRITICAL", "LOW"} \X {"Todo", "In Progress", "Done"} \X {None, 1}

ReadInit ==
    \E shape \in SeqsUpTo(ReadShapes, MaxTasks) :
        LET tasks == [i \in 1..Len(shape) |->
                        [PersistedTask(i, shape[i][1], shape[i][2], {})
                            EXCEPT !.phase = shape[i][3]]]
        IN  /\ file = <<PersistedDocument(tasks)>>
            /\ data = load_or_create(file).doc
            /\ clock = 1
            /\ result = Returned("__init__", <<>>, None, None)
            /\ issued = 1..Len(shape)
            /\ trail = [i \in 1..Len(shape) |->
                          IF tasks[i].status = "Todo" THEN Untouched
                          ELSE Touched(Untouched, tasks[i].status, 1)]
            /\ removed = {}
            /\ other = DefaultDocument
            /\ markdown = <<>>

ReadNext ==
    \/ \E task_id \in {1, MaxId + 1} : GetTask(task_id)
    \/ \E status \in {"Todo", "Done"} : GetTasksByStatus(status)
    \/ \E phase \in {None, 1} : GetTasksByPhase(phase)
    \/ GetNextTask
    \/ GetProgress

SpecRead == ReadInit /\ [][ReadNext]_vars

\* The session log: entries appended under repeated, skipped and
\* out-of-order session numbers, between calls of every other operation.
LogNext ==
    \/ \E tasks \in SeqsUpTo({TaskInput(Missing, {})}, MaxTimedTasks) :
          Initialize("P", tasks, <<>>, <<>>, clock, clock)
    \/ RoomForTask(MaxTimedTasks) /\ AddTask("MEDIUM", None, {}, clock, clock)
    \/ RemoveTask(1, clock)
    \/ UpdateTaskStatus(1, "Done", NoNotes, clock, clock)
    \/ \E session_num \in {1, 3} :
          /\ Len(data.session_logs) < MaxSessions
          /\ AddSessionLog(session_num, "s", clock, clock)
    \/ GetNextTask
    \/ Construct

SpecLog == Init /\ [][LogNext]_vars

\* The report: a manager constructed over a file holding tasks of every
\* status outside the phases and Todo and Done tasks in phase 0 or phase 1,
\* with no phases declared, with phases 1 and 2, or with phase 0, declared
\* without a name, and phase 1.
ReportShapes ==
    (Range(VALID_STATUSES) \X {None}) \cup ({"Todo", "Done"} \X {Zero, 1})

ReportPhases ==
    {<<>>,
     <<[id |-> 1, name |-> "Phase 1"], [id |-> 2, name |-> "Phase 2"]>>,
     <<[id |-> Zero, name |-> Missing], [id |-> 1, name |-> "Phase 1"]>>}

ReportInit ==
    \E shape \in SeqsUpTo(ReportShapes, MaxReportTasks), phases \in ReportPhases :
        LET tasks == [i \in 1..Len(shape) |->
                        [PersistedTask(i, "MEDIUM", shape[i][1], {})
                            EXCEPT !.phase = shape[i][2]]]
        IN  /\ file = <<[PersistedDocument(tasks) EXCEPT !.phases = phases]>>
            /\ data = load_or_create(file).doc
            /\ clock = 1
            /\ result = Returned("__init__", <<>>, None, None)
            /\ issued = 1..Len(shape)
            /\ trail = [i \in 1..Len(shape) |->
                          IF tasks[i].status = "Todo" THEN Untouched
                          ELSE Touched(Untouched, tasks[i].status, 1)]
            /\ removed = {}
            /\ other = DefaultDocument
            /\ markdown = <<>>

ReportNext ==
    \/ GetProgress
    \/ ExportToMarkdown

SpecReport == ReportInit /\ [][ReportNext]_vars

\* The driver of the module's usage notes: it initializes the document, then
\* asks get_next_task for a task, moves the task to In Progress and to Done,
\* and asks again, until get_next_task returns None.  Its position in this
\* loop is the last call it made.  The task dictionaries name as dependencies
\* only ids that initialize assigns, and no task depends on itself through
\* any chain.
Acyclic(tasks) ==
    \E rank \in [1..Len(tasks) -> 1..Len(tasks)] :
        \A i \in 1..Len(tasks) : \A d \in tasks[i].dependencies : rank[d] < rank[i]

DriverInputs ==
    {tasks \in SeqsUpTo({TaskInput(priority, dependencies) :
                            priority \in {Missing, "CRITICAL", "LOW"},
                            dependencies \in SUBSET (1..MaxTasks)}, MaxTasks) :
        /\ \A i \in 1..Len(tasks) : tasks[i].dependencies \subseteq 1..Len(tasks)
        /\ Acyclic(tasks)}

DriverInitialize ==
    /\ result.op = "__init__"
    /\ \E tasks \in DriverInputs : Initialize("P", tasks, <<>>, <<>>, clock, clock)

DriverTake ==
    /\ \/ result.op = "initialize"
       \/ result.op = "update_task_status" /\ result.args[2] = "Done"
    /\ GetNextTask

DriverStart ==
    /\ result.op = "get_next_task"
    /\ result.ret # 0
    /\ UpdateTaskStatus(data.tasks[result.ret].id, "In Progress", NoNotes, clock, clock)

DriverFinish ==
    /\ result.op = "update_task_status" /\ result.args[2] = "In Progress"
    /\ UpdateTaskStatus(result.args[1], "Done", NoNotes, clock, clock)

DriverLoop ==
    \/ DriverTake
    \/ DriverStart
    \/ DriverFinish

DriverNext ==
    \/ DriverInitialize
    \/ DriverLoop

\* The driver's loop is sequential and each call returns: once the document
\* is initialized the driver makes its next call whenever it has one to make.
SpecDriver == Init /\ [][DriverNext]_vars /\ WF_vars(DriverLoop)

\* Notes: tasks of a document with a phase, a success criterion and a
\* session log are moved between the statuses, with no notes argument, with
\* empty notes and with notes of two kinds.
NotesInputs == {NoNotes, "", "first", "second"}

PhaseInputs == <<[id |-> 1, name |-> "Phase 1"]>>

NotesNext ==
    \/ \E tasks \in SeqsUpTo({TaskInput(Missing, {})}, MaxTasks) :
          Initialize("P", tasks, PhaseInputs, <<"criterion">>, clock, clock)
    \/ \E task_id \in {1, MaxTasks}, status \in Range(VALID_STATUSES), notes \in NotesInputs :
          UpdateTaskStatus(task_id, status, notes, clock, clock)
    \/ RoomForLog /\ AddSessionLog(1, "s", clock, clock)

SpecNotes == Init /\ [][NotesNext]_vars

\* Two managers constructed over the same missing file, the caller adding
\* tasks and session log entries through one or the other.
TwoNext ==
    \/ \E now \in Now(clock, Ticks) : \E saved \in Now(now, Ticks) :
          /\ RoomForTask(MaxTimedTasks)
          /\ AddTask("MEDIUM", None, {}, now, saved)
    \/ \E now \in Now(clock, Ticks) : \E saved \in Now(now, Ticks) :
          /\ RoomForLog
          /\ AddSessionLog(1, "s", now, saved)
    \/ Switch

SpecTwo == Init /\ [][TwoNext]_vars

\* ------------------------------------------------------------------ claims

\* The vocabulary of the claims, stated on the document and not through the
\* operators of get_next_task.
Tasks == data.tasks

Positions == 1..Len(Tasks)

IsDone(d) == \E j \in Positions : Tasks[j].id = d /\ Tasks[j].status = "Done"

Eligible(i) == Tasks[i].status = "Todo" /\ \A d \in Tasks[i].dependencies : IsDone(d)

InProgress(i) == Tasks[i].status = "In Progress"

NoneInProgress == \A i \in Positions : ~InProgress(i)

\* p is a better priority tier than q.
Beats(p, q) ==
    <<p, q>> \in {<<"CRITICAL", "HIGH">>, <<"CRITICAL", "MEDIUM">>, <<"CRITICAL", "LOW">>,
                  <<"HIGH", "MEDIUM">>, <<"HIGH", "LOW">>, <<"MEDIUM", "LOW">>}

\* get_next_task has just returned: result.ret is the position of its task.
NextTaskReturned == result.op = "get_next_task"

\* C2: whenever some task is In Progress, get_next_task returns the first In
\* Progress task in list order, whatever the other tasks and its own
\* dependencies are.
C2_InProgressFirst ==
    (NextTaskReturned /\ ~NoneInProgress) =>
        /\ result.ret \in Positions
        /\ InProgress(result.ret)
        /\ \A j \in Positions : InProgress(j) => result.ret <= j

\* C2 happens: the task returned is In Progress with a dependency that is not
\* Done, and it stands behind an eligible CRITICAL task.
C2_Witness ==
    /\ NextTaskReturned
    /\ Len(Tasks) >= 2
    /\ result.ret = 2
    /\ ~(\A d \in Tasks[2].dependencies : IsDone(d))
    /\ Eligible(1) /\ Tasks[1].priority = "CRITICAL"

\* C3: with no task In Progress and some Todo task eligible, get_next_task
\* returns an eligible task that no eligible task beats in priority tier, and
\* no eligible task of its own tier precedes it in the list.
C3_BestTierEarliest ==
    (NextTaskReturned /\ NoneInProgress /\ \E i \in Positions : Eligible(i)) =>
        /\ result.ret \in Positions
        /\ Eligible(result.ret)
        /\ \A j \in Positions : Eligible(j) =>
              /\ ~Beats(Tasks[j].priority, Tasks[result.ret].priority)
              /\ Tasks[j].priority = Tasks[result.ret].priority => result.ret <= j

\* C3 happens: an eligible LOW task comes first in the list and the eligible
\* CRITICAL task behind it is returned.
C3_Witness ==
    /\ NextTaskReturned /\ NoneInProgress
    /\ Len(Tasks) >= 2
    /\ Eligible(1) /\ Tasks[1].priority = "LOW"
    /\ Eligible(2) /\ Tasks[2].priority = "CRITICAL"
    /\ result.ret = 2

\* C4: with no task In Progress, get_next_task returns None exactly when every
\* Todo task has a dependency id that is not the id of a Done task.
C4_NoneIffAllBlocked ==
    (NextTaskReturned /\ NoneInProgress) =>
        (result.ret = 0 <=>
            \A i \in Positions : Tasks[i].status = "Todo" =>
                \E d \in Tasks[i].dependencies : ~IsDone(d))

\* C4 happens: None is returned while a Todo task waits for a task that is in
\* the list and not Done.
C4_Witness ==
    /\ NextTaskReturned /\ NoneInProgress
    /\ result.ret = 0
    /\ \E i, j \in Positions :
          /\ Tasks[i].status = "Todo"
          /\ Tasks[j].id \in Tasks[i].dependencies
          /\ Tasks[j].status = "Blocked"

\* C5: a task get_next_task returns is In Progress, or Todo with every
\* dependency id the id of a Done task.
C5_ReturnedIsActionable ==
    (NextTaskReturned /\ result.ret # 0) =>
        /\ result.ret \in Positions
        /\ InProgress(result.ret) \/ Eligible(result.ret)

\* C5 happens: task 1 is LOW with no dependencies, task 2 is CRITICAL and
\* depends on task 1, which is not Done, and task 1 is returned.
C5_Witness ==
    /\ NextTaskReturned
    /\ Len(Tasks) = 2
    /\ Tasks[1].id = 1 /\ Tasks[1].priority = "LOW" /\ Tasks[1].status = "Todo"
    /\ Tasks[1].dependencies = {}
    /\ Tasks[2].priority = "CRITICAL" /\ Tasks[2].status = "Todo"
    /\ Tasks[2].dependencies = {1}
    /\ result.ret = 1

\* C1: every id add_task returns is greater than every id assigned earlier in
\* the document, so no id is assigned twice, also after a removal.
C1_IdsNeverReused ==
    [][(result'.op = "add_task" /\ ~result'.raised) =>
          \A j \in issued : result'.ret > j]_vars

\* update_task_status has just changed the task with the id it was given.
StatusUpdated == result.op = "update_task_status" /\ ~result.raised /\ result.ret = TRUE

\* The position of the task with this id.
PositionOf(task_id) == CHOOSE i \in Positions : Tasks[i].id = task_id

\* C6: the first transition of a task into In Progress sets started_at to the
\* time of the call, and every later transition into In Progress leaves
\* started_at as it was.
C6_StartedAtSetOnce ==
    [][(StatusUpdated' /\ result'.args[2] = "In Progress") =>
          LET i == PositionOf(result'.args[1])
          IN  IF trail[i].ran
              THEN /\ Tasks[i].started_at # None
                   /\ data'.tasks[i].started_at = Tasks[i].started_at
              ELSE data'.tasks[i].started_at = result'.at]_vars

\* C6 happens: a task started earlier, and completed since, has just been
\* moved to In Progress again at a later time.
C6_Witness ==
    /\ StatusUpdated /\ result.args[2] = "In Progress"
    /\ LET i == PositionOf(result.args[1])
       IN  /\ Tasks[i].started_at # None
           /\ Tasks[i].started_at < result.at
           /\ trail[i].done_at # None

\* C7: every successful update_task_status(id, Done) sets completed_at to the
\* time of that call, whatever it held before.
C7_CompletedAtOverwritten ==
    [][(StatusUpdated' /\ result'.args[2] = "Done") =>
          data'.tasks[PositionOf(result'.args[1])].completed_at = result'.at]_vars

\* C7 happens: Done has just been applied to a task that was Done before, and
\* completed_at holds the later time.
C7_Witness ==
    /\ StatusUpdated /\ result.args[2] = "Done"
    /\ LET i == PositionOf(result.args[1])
       IN  /\ trail[i].done_at # None
           /\ trail[i].done_at < result.at
           /\ Tasks[i].completed_at = result.at

\* C8 as stated: completed_at is non-null exactly when the last transition
\* applied to the task was to Done.
C8_CompletedIffLastDone ==
    \A i \in Positions : Tasks[i].completed_at # None <=> trail[i].last = "Done"

\* C8, amended: completed_at is non-null exactly when some transition applied
\* to the task was to Done; it stays set when the task leaves Done.
C8_CompletedIffEverDone ==
    \A i \in Positions : Tasks[i].completed_at # None <=> trail[i].done_at # None

\* C8 happens: a task that was completed has since been moved back to Todo.
C8_Witness ==
    \E i \in Positions :
        /\ trail[i].done_at # None
        /\ trail[i].last = "Todo"
        /\ Tasks[i].completed_at # None

\* C9: update_task_status with a status outside the five values, and add_task
\* with a priority outside the four, raise, and the document in memory and
\* the file stay as they were.
C9_InvalidRejected ==
    [][(\/ result'.op = "update_task_status" /\ result'.args[2] \notin Range(VALID_STATUSES)
        \/ result'.op = "add_task" /\ result'.args[1] \notin Range(VALID_PRIORITIES)) =>
          (result'.raised /\ data' = data /\ file' = file)]_vars

\* C9 happens: update_task_status has raised for an invalid status given with
\* the id of a task of the document, at a time when a save would have
\* written a later last_updated.
C9_Witness ==
    /\ result.op = "update_task_status" /\ result.raised
    /\ \E i \in Positions : Tasks[i].id = result.args[1]
    /\ file = <<data>>
    /\ \E later \in Now(clock, Ticks) : data.last_updated < later

\* The id given to the call that just ended matches no task.
NoSuchTask == \A i \in Positions : Tasks[i].id # result'.args[1]

\* C10 as stated: update_task_status and remove_task given an id that matches
\* no task raise nothing, return False and change neither document nor file.
C10_NotFoundReturnsFalse ==
    [][(result'.op \in {"update_task_status", "remove_task"} /\ NoSuchTask) =>
          (~result'.raised /\ result'.ret = FALSE /\ data' = data /\ file' = file)]_vars

\* C10, amended: the same, for update_task_status given a valid status; with
\* an invalid status the validation error comes first.
C10_NotFoundValidReturnsFalse ==
    [][(/\ result'.op \in {"update_task_status", "remove_task"}
        /\ NoSuchTask
        /\ result'.op = "update_task_status" => result'.args[2] \in Range(VALID_STATUSES)) =>
          (~result'.raised /\ result'.ret = FALSE /\ data' = data /\ file' = file)]_vars

\* C10 happens: update_task_status has returned False for an id no task has,
\* the document holding a task, at a time when a save would have written a
\* later last_updated.
C10_Witness ==
    /\ result.op = "update_task_status" /\ ~result.raised /\ result.ret = FALSE
    /\ Len(Tasks) >= 1
    /\ file = <<data>>
    /\ \E later \in Now(clock, Ticks) : data.last_updated < later

\* C11: every task of the document has one of the four priorities, initialize
\* as well as add_task refusing any other.
C11_PrioritiesValid ==
    \A i \in Positions : Tasks[i].priority \in Range(VALID_PRIORITIES)

\* C12: every task has one of the five statuses, and a task no
\* update_task_status has been applied to since its creation is Todo.
C12_StatusesValid ==
    \A i \in Positions :
        /\ Tasks[i].status \in Range(VALID_STATUSES)
        /\ trail[i].last = "" => Tasks[i].status = "Todo"

\* C12 happens: update_task_status has just refused a status outside the five
\* for a task that an earlier call had moved to Blocked.
C12_Witness ==
    /\ result.op = "update_task_status" /\ result.raised
    /\ \E i \in Positions : Tasks[i].id = result.args[1] /\ Tasks[i].status = "Blocked"

\* C13: no two tasks of the document have the same id.
C13_IdsUnique ==
    \A i, j \in Positions : i # j => Tasks[i].id # Tasks[j].id

\* C13 happens: add_task has just given a new task the id of a task removed
\* earlier, next to a task that stayed in the document.
C13_Witness ==
    /\ result.op = "add_task" /\ ~result.raised
    /\ result.ret \in removed
    /\ Len(Tasks) = 2
    /\ Tasks[2].id = result.ret

\* C14: a Todo task that depends on an id remove_task removed is not eligible
\* and is not the task get_next_task returns.
C14_RemovedNeverSatisfied ==
    \A i \in Positions :
        (Tasks[i].status = "Todo" /\ Tasks[i].dependencies \cap removed # {}) =>
            /\ ~Eligible(i)
            /\ ~(NextTaskReturned /\ result.ret = i)

\* The call that just ended changed the document: initialize, add_task or
\* add_session_log returned, or remove_task or update_task_status found
\* their task.
Mutated ==
    /\ ~result.raised
    /\ \/ result.op \in {"initialize", "add_task", "add_session_log"}
       \/ result.op \in {"remove_task", "update_task_status"} /\ result.ret = TRUE

\* C15: after every call that changed the document the file holds the whole
\* document in memory, and its last_updated is the time _save read in that
\* call, not earlier than the time the call's body read.
C15_FileIsMemoryAfterMutation ==
    [][Mutated' =>
          /\ file' = <<data'>>
          /\ data'.last_updated = clock'
          /\ data'.last_updated >= result'.at
          /\ data'.last_updated >= data.last_updated]_vars

\* C15 happens: remove_task has just emptied a document that held a session
\* log, and the file holds the document with a last_updated later than the
\* log's time.
C15_Witness ==
    /\ Mutated /\ result.op = "remove_task"
    /\ Len(Tasks) = 0
    /\ Len(data.session_logs) = 1
    /\ data.last_updated > data.session_logs[1].timestamp
    /\ file = <<data>>

\* C16: a manager constructed over a file that holds a persisted document
\* holds that document: the same tasks in the same order with the same
\* fields, the same phases, session logs and success criteria.
C16_RoundTrip ==
    (result.op = "__init__" /\ ~result.raised /\ Len(file) = 1) => data = file[1]

\* C16 happens: a manager has been constructed over a file that holds a
\* completed task that was never started, a task with a dependency, and a
\* session log.
C16_Witness ==
    /\ result.op = "__init__" /\ ~result.raised /\ Len(file) = 1
    /\ Len(data.session_logs) = 1
    /\ \E i \in Positions :
          /\ Tasks[i].completed_at # None
          /\ Tasks[i].started_at = None
    /\ \E i \in Positions : Tasks[i].dependencies # {}

\* C17: constructing a manager over a missing file, or over a file whose text
\* cannot be parsed, raises nothing and leaves the manager with the empty
\* default document.
C17_ConstructNeverRaises ==
    [][(result'.op = "__init__" /\ Len(file) # 1) =>
          (~result'.raised /\ data' = DefaultDocument)]_vars

\* C18: when initialize returns, the document holds one task per dictionary
\* supplied, the i-th with id i, status Todo, no started_at and no
\* completed_at and the priority and dependencies of the i-th dictionary, and
\* the session log is empty, whatever the document held before.
C18_InitializeReplaces ==
    [][result'.op = "initialize" =>
          LET supplied == result'.args[1]
          IN  /\ Len(data'.tasks) = Len(supplied)
              /\ \A i \in 1..Len(supplied) :
                    /\ data'.tasks[i].id = i
                    /\ data'.tasks[i].status = "Todo"
                    /\ data'.tasks[i].started_at = None
                    /\ data'.tasks[i].completed_at = None
                    /\ data'.tasks[i].priority = Get(supplied[i].priority, "MEDIUM")
                    /\ data'.tasks[i].dependencies = supplied[i].dependencies
              /\ data'.session_logs = <<>>]_vars

\* C18 happens: initialize has just returned for two dictionaries, the first
\* depending on the second, the second with a priority of its own.
C18_Witness ==
    /\ result.op = "initialize"
    /\ Len(result.args[1]) = 2
    /\ result.args[1][1].dependencies = {2}
    /\ result.args[1][2].priority = "URGENT"
    /\ Len(Tasks) = 2 /\ Tasks[2].id = 2 /\ Tasks[2].priority = "URGENT"

\* The operations that only read.
ReadOps ==
    {"get_task", "get_tasks_by_status", "get_tasks_by_phase", "get_next_task", "get_progress"}

\* The id of the task at a position get_next_task returned, None for None.
IdAt(tasks, i) == IF i = 0 THEN None ELSE tasks[i].id

\* C19: a read operation leaves the document in memory, the order of its
\* task list and last_updated included, and the file as they were, and
\* get_next_task called right after get_next_task returns the same task.
C19_ReadsChangeNothing ==
    [][result'.op \in ReadOps =>
          /\ data' = data
          /\ file' = file
          /\ (result.op = "get_next_task" /\ result'.op = "get_next_task") =>
                IdAt(data'.tasks, result'.ret) = IdAt(data.tasks, result.ret)]_vars

\* C19 happens: get_next_task has returned the CRITICAL task that stands
\* behind an eligible LOW task, and list and file are as they were loaded.
C19_Witness ==
    /\ NextTaskReturned
    /\ Len(Tasks) >= 2
    /\ Eligible(1) /\ Tasks[1].priority = "LOW" /\ Tasks[1].id = 1
    /\ Eligible(2) /\ Tasks[2].priority = "CRITICAL" /\ Tasks[2].id = 2
    /\ result.ret = 2
    /\ file = <<data>>

\* C20: add_session_log puts one entry with the session number given behind
\* the entries the log held, which stay as they were and in their order; no
\* other operation than initialize changes the log.
C20_LogAppendOnly ==
    [][LET before == data.session_logs
           after == data'.session_logs
       IN  /\ (result'.op = "add_session_log" /\ ~result'.raised) =>
                 /\ Len(after) = Len(before) + 1
                 /\ SubSeq(after, 1, Len(before)) = before
                 /\ after[Len(after)].session = result'.args[1]
                 /\ after[Len(after)].timestamp = result'.at
           /\ result'.op \notin {"add_session_log", "initialize"} => after = before]_vars

\* C20 happens: an entry for session 1 has just been appended behind the
\* entry of session 3.
C20_Witness ==
    /\ result.op = "add_session_log"
    /\ Len(data.session_logs) >= 2
    /\ data.session_logs[1].session = 3
    /\ data.session_logs[2].session = 1

\* C21: with two managers over one file, a call that changes a manager's
\* document writes that document to the file whole, built from the manager's
\* own copy alone, and leaves the other manager's copy as it was; so the
\* file can lack what the other manager persisted before.
C21_LastWriterWins ==
    [][Mutated' =>
          /\ file' = <<data'>>
          /\ other' = other
          /\ result'.op = "add_task" =>
                /\ Len(data'.tasks) = Len(data.tasks) + 1
                /\ SubSeq(data'.tasks, 1, Len(data.tasks)) = data.tasks
                /\ data'.session_logs = data.session_logs
          /\ result'.op = "add_session_log" =>
                /\ Len(data'.session_logs) = Len(data.session_logs) + 1
                /\ SubSeq(data'.session_logs, 1, Len(data.session_logs)) = data.session_logs
                /\ data'.tasks = data.tasks]_vars

\* C21 happens, a lost update: one manager has just added a task and the
\* file holds its document, without the session log entry that the other
\* manager holds and had written to the file before.
C21_Witness ==
    /\ Mutated /\ result.op = "add_task"
    /\ file = <<data>>
    /\ Len(other.session_logs) = 1
    /\ other.last_updated # None
    /\ other.last_updated < data.last_updated
    /\ file[1].session_logs = <<>>

\* C22: update_task_status given notes leaves exactly these notes in the
\* task it found, in place of the notes the task held; given no notes it
\* leaves the task's notes as they were.
C22_NotesOverwritten ==
    [][StatusUpdated' =>
          LET i == PositionOf(result'.args[1])
              notes == result'.args[3]
          IN  IF notes = NoNotes
              THEN data'.tasks[i].notes = Tasks[i].notes
              ELSE data'.tasks[i].notes = notes]_vars

\* C26: no update_task_status clears a completed_at that was set, whatever
\* status it moves the task to, and a task has a completed_at exactly when
\* Done was applied to it at some time since it was created.
C26_CompletedAtNeverCleared ==
    [][/\ StatusUpdated' =>
             \A i \in Positions :
                 Tasks[i].completed_at # None => data'.tasks[i].completed_at # None
       /\ \A i \in 1..Len(data'.tasks) :
             data'.tasks[i].completed_at # None <=> trail'[i].done_at # None]_vars

\* C26 happens: a task completed earlier has just been moved to Skipped and
\* still holds the time of its completion.
C26_Witness ==
    /\ StatusUpdated
    /\ result.args[2] = "Skipped"
    /\ LET i == PositionOf(result.args[1])
       IN  /\ Tasks[i].status = "Skipped"
           /\ Tasks[i].completed_at # None
           /\ Tasks[i].completed_at = trail[i].done_at
           /\ Tasks[i].completed_at < result.at

\* C27: a successful update_task_status leaves the list as long as it was,
\* every other task as it was, the task found at its position with all its
\* fields but status, started_at, completed_at and notes as they were, and
\* the document's name, creation time, phases, session logs and success
\* criteria as they were; given Todo, Blocked or Skipped it leaves started_at
\* and completed_at as they were too.
C27_UpdateFrame ==
    [][StatusUpdated' =>
          LET i == PositionOf(result'.args[1])
              new == data'.tasks
          IN  /\ Len(new) = Len(Tasks)
              /\ \A j \in Positions \ {i} : new[j] = Tasks[j]
              /\ new[i] = [Tasks[i] EXCEPT !.status = new[i].status,
                                           !.started_at = new[i].started_at,
                                           !.completed_at = new[i].completed_at,
                                           !.notes = new[i].notes]
              /\ data' = [data EXCEPT !.tasks = new, !.last_updated = data'.last_updated]
              /\ result'.args[2] \in {"Todo", "Blocked", "Skipped"} =>
                    /\ new[i].started_at = Tasks[i].started_at
                    /\ new[i].completed_at = Tasks[i].completed_at]_vars

\* C27 happens: the first of two tasks, started and completed, has just been
\* moved to Blocked with new notes, in a document with a phase, a session log
\* and a success criterion, whose other task holds notes of its own.
C27_Witness ==
    /\ StatusUpdated
    /\ result.args = <<1, "Blocked", "second">>
    /\ Len(Tasks) = 2
    /\ Tasks[1].id = 1
    /\ Tasks[1].status = "Blocked"
    /\ Tasks[1].notes = "second"
    /\ Tasks[1].started_at # None
    /\ Tasks[1].completed_at # None
    /\ Tasks[2].notes = "first"
    /\ data.phases # <<>>
    /\ data.session_logs # <<>>
    /\ data.success_criteria # <<>>

\* C28: the ids of the task list ascend strictly along the list, and when no
\* task is In Progress the task get_next_task returns has the lowest id among
\* the eligible tasks of its priority.
C28_AscendingIds ==
    /\ \A i, j \in Positions : i < j => Tasks[i].id < Tasks[j].id
    /\ (NextTaskReturned /\ NoneInProgress /\ result.ret \in Positions) =>
          \A j \in Positions :
              (Eligible(j) /\ Tasks[j].priority = Tasks[result.ret].priority) =>
                  Tasks[result.ret].id <= Tasks[j].id

\* C28 happens: after a removal and an addition the list holds the ids 2 and
\* 3, both tasks eligible with one priority, and get_next_task has returned
\* the task with id 2.
C28_Witness ==
    /\ NextTaskReturned /\ NoneInProgress
    /\ Len(Tasks) = 2
    /\ 1 \in removed
    /\ Tasks[1].id = 2 /\ Tasks[2].id = 3
    /\ Eligible(1) /\ Eligible(2)
    /\ Tasks[1].priority = Tasks[2].priority
    /\ result.ret = 1

\* export_to_markdown has just written the report of the document.
Exported == result.op = "export_to_markdown" /\ ~result.raised /\ markdown # <<>>

\* The number of tasks whose status is Done.
DoneCount == Cardinality({i \in Positions : Tasks[i].status = "Done"})

\* p tenths of a percent is done / total * 100 rounded to one decimal: it is
\* no more than half a tenth away from it.
RoundedTenths(p, done, total) ==
    LET gap == IF p * total >= 1000 * done
               THEN p * total - 1000 * done
               ELSE 1000 * done - p * total
    IN  2 * gap <= total

\* C23: for a document without tasks get_progress returns, and
\* export_to_markdown writes, a total of 0 and a completion of 0, and neither
\* raises.
C23_EmptyIsZero ==
    Tasks = <<>> =>
        /\ result.op = "get_progress" =>
              (~result.raised /\ result.ret.total = 0 /\ result.ret.percentage = 0)
        /\ result.op = "export_to_markdown" =>
              (Exported /\ markdown[1].total = 0 /\ markdown[1].completion = <<0>>)

\* C23 happens: a document with phases and no tasks has been exported.
C23_Witness ==
    /\ Exported
    /\ Tasks = <<>>
    /\ data.phases # <<>>
    /\ markdown[1].completion = <<0>>

\* C24: for a document with tasks the percentage get_progress returns is the
\* number of Done tasks over the number of all tasks, times 100, rounded to
\* one decimal, and export_to_markdown writes this percentage with its one
\* decimal, the number of Done tasks as completed and the number of all tasks
\* as total.
C24_PercentageOfDone ==
    Tasks # <<>> =>
        /\ result.op = "get_progress" =>
              /\ result.ret.total = Len(Tasks)
              /\ result.ret.done = DoneCount
              /\ RoundedTenths(result.ret.percentage, DoneCount, Len(Tasks))
        /\ result.op = "export_to_markdown" =>
              /\ Exported
              /\ markdown[1].total = Len(Tasks)
              /\ markdown[1].completed = DoneCount
              /\ Len(markdown[1].completion) = 2
              /\ markdown[1].completion[2] \in 0..9
              /\ RoundedTenths(10 * markdown[1].completion[1] + markdown[1].completion[2],
                               DoneCount, Len(Tasks))
              /\ (Len(Tasks) = 2 /\ DoneCount = 1) => markdown[1].completion = <<50, 0>>

\* C24 happens: a document with one Done, one Skipped and one Blocked task
\* has been exported with a completion of 33.3.
C24_Witness ==
    /\ Exported
    /\ Len(Tasks) = 3
    /\ Tasks[1].status = "Done" /\ Tasks[2].status = "Skipped" /\ Tasks[3].status = "Blocked"
    /\ markdown[1].completion = <<33, 3>>

\* The ids of the tasks the report lists in its k-th section.
Listed(k) ==
    [n \in 1..Len(markdown[1].sections[k].tasks) |-> markdown[1].sections[k].tasks[n].id]

\* The ids of the tasks from position i on whose phase is this one, in list
\* order.
RECURSIVE InPhaseFrom(_, _)
InPhaseFrom(phase, i) ==
    IF i > Len(Tasks) THEN <<>>
    ELSE IF Tasks[i].phase = phase
         THEN <<Tasks[i].id>> \o InPhaseFrom(phase, i + 1)
         ELSE InPhaseFrom(phase, i + 1)

\* C25: the report of a document with phases has one section per phase, in
\* which it lists the tasks whose phase is the id of this phase, in list
\* order and no others, so that a task whose phase is the id of no phase is
\* listed in no section.
C25_ListedUnderOwnPhase ==
    (Exported /\ data.phases # <<>>) =>
        /\ Len(markdown[1].sections) = Len(data.phases)
        /\ \A k \in 1..Len(data.phases) : Listed(k) = InPhaseFrom(data.phases[k].id, 1)

\* Every task of the document is Done.
AllDone == \A i \in Positions : Tasks[i].status = "Done"

\* C29: once the driver has initialized the document it reaches a state in
\* which every task is Done; whenever get_next_task has returned None every
\* task is Done; and never are two tasks In Progress.
C29_DriverCompletes ==
    /\ (result.op = "initialize") ~> (AllDone /\ NextTaskReturned /\ result.ret = 0)
    /\ []((NextTaskReturned /\ result.ret = 0) => AllDone)
    /\ [](Cardinality({i \in Positions : InProgress(i)}) <= 1)

\* C29 happens: the driver has completed two tasks, the second before the
\* first, which is CRITICAL and depends on it, and get_next_task has
\* returned None.
C29_Witness ==
    /\ NextTaskReturned /\ result.ret = 0
    /\ Len(Tasks) = 2
    /\ AllDone
    /\ Tasks[1].priority = "CRITICAL"
    /\ Tasks[1].dependencies = {2}
    /\ trail[1].ran /\ trail[2].ran
    /\ trail[1].done_at # None /\ trail[2].done_at # None

====
